---- MODULE Spec2Model ----
(***************************************************************************)
(* Model of src/pages/index.js: the interval timer groups (TimerGroup) and *)
(* their collection (TimerManager).                                        *)
(*                                                                         *)
(* Time is the value of Date.now(), in clock units.  A handler that calls  *)
(* Date.now() several times gets a non-decreasing series of readings: the  *)
(* clock may advance between two calls inside one handler.                 *)
(*                                                                         *)
(* A handler runs inside one browser event.  The model takes React to     *)
(* commit the state the handler set, and to run the cleanup and the body   *)
(* of every effect whose dependencies changed, before the next event or    *)
(* timer callback is handled (what a React 18 root does for an update made *)
(* in a click): one action is the handler, the commit and the effects.     *)
(***************************************************************************)
EXTENDS Integers, Sequences, FiniteSets, TLC

\* ---------------------------------------------------------------- bounds

\* Largest clock value explored.
MaxTime == 3
\* Largest load explored: the mounted groups, plus the segments of their
\* histories, plus one for each group in run or rest (the segment its Stop
\* will record).  One group can record MaxLoad - 1 segments, two groups
\* MaxLoad - 2 between them.
MaxLoad == 4
\* Largest group id handed out by addGroup.
MaxId == 2

\* ------------------------------------------------------- program constants

\* useState(null) for startTime.  JavaScript reads null as 0 in
\* `Date.now() - startTime` and as false in `mode !== 'idle' && startTime`;
\* Date.now() itself is never 0 (the values it returns start at 1).
Null == 0

Ids == 1..MaxId
Times == 1..MaxTime
Modes == {"idle", "run", "rest"}

VARIABLES
    now,        \* the value Date.now() returns when the next event begins
    groups,     \* TimerManager: the sequence of group ids
    timer,      \* TimerGroup state by id: mode, startTime, elapsed, history
    interval,   \* by id: the startTime captured by the scheduled setInterval
                \* callback, Null when none is scheduled
    listeners,  \* by id: the mode captured by the 'start-all-timers'
                \* listener the group has registered, "none" without one
    log,        \* by id: the operations that changed the group, from the
                \* last one that found or left its history empty (history
                \* variable, not program state)
    home        \* Home: the texts of the distance, time and pace fields,
                \* lapLength and the text of the lap-length field

vars == <<now, groups, timer, interval, listeners, log, home>>

\* ---------------------------------------------------------------- helpers

Range(s) == {s[i] : i \in 1..Len(s)}

Max(S) == CHOOSE x \in S : \A y \in S : y <= x

Min2(a, b) == IF a <= b THEN a ELSE b

\* groups.filter(keep)
RECURSIVE Filter(_, _)
Filter(s, keep) ==
    IF s = <<>> THEN <<>>
    ELSE IF Head(s) \in keep THEN <<Head(s)>> \o Filter(Tail(s), keep)
         ELSE Filter(Tail(s), keep)

\* The readings a handler can get from k successive calls of Date.now():
\* the first is the time the event begins, the others do not decrease.
\* A handler runs for much less than one unit of the clock: the clock
\* advances at most once while it runs.
Reads2 ==
    {r \in Times \X Times :
        /\ r[1] = now
        /\ r[1] <= r[2] /\ r[2] <= Min2(now + 1, MaxTime)}

Reads3 ==
    {r \in Times \X Times \X Times :
        /\ r[1] = now
        /\ r[1] <= r[2] /\ r[2] <= r[3]
        /\ r[3] <= Min2(now + 1, MaxTime)}

\* ------------------------------------------------------------- TimerGroup

\* The state of a freshly mounted TimerGroup.
InitGroup ==
    [mode |-> "idle", startTime |-> Null, elapsed |-> 0, history |-> <<>>]

\* Faulty variant of nextMode: never goes back to run.
nextModeStuck(m) == "rest"

\* const nextMode = mode === 'run' ? 'rest' : 'run'
nextMode(m) == IF m = "run" THEN "rest" ELSE "run"

\* Faulty variant of newEntry: records the sampled elapsed value.
newEntryFromElapsed(s, rd, rt) ==
    [mode |-> s.mode, duration |-> s.elapsed, timestamp |-> rt]

\* newEntry of handleLap and handleStop.  rd is the reading of Date.now()
\* used for the duration, rt the one used for the timestamp.  The id field
\* (Date.now() + Math.random()) is never read by the program and is left out.
newEntry(s, rd, rt) ==
    [mode |-> s.mode, duration |-> rd - s.startTime, timestamp |-> rt]

\* Faulty variant of handleStart: starts in rest.
handleStartResting(s, r) ==
    [s EXCEPT !.mode = "rest", !.startTime = r, !.elapsed = 0]

\* Faulty variant of handleStart: a new session drops the history.
handleStartClearing(s, r) ==
    [mode |-> "run", startTime |-> r, elapsed |-> 0, history |-> <<>>]

\* handleStart: r is the reading of Date.now().
handleStart(s, r) ==
    [s EXCEPT !.mode = "run", !.startTime = r, !.elapsed = 0]

\* Faulty variants of handleLap: one leaves startTime as it is, one lacks
\* the test of the mode.
handleLapKeepingStart(s, r) ==
    IF s.mode = "idle" THEN s
    ELSE [mode |-> nextMode(s.mode),
          startTime |-> s.startTime,
          elapsed |-> 0,
          history |-> Append(s.history, newEntry(s, r[1], r[2]))]

handleLapUnguarded(s, r) ==
    [mode |-> nextMode(s.mode),
     startTime |-> r[3],
     elapsed |-> 0,
     history |-> Append(s.history, newEntry(s, r[1], r[2]))]

\* Faulty variant of handleLap: the newest entry is put first.
handleLapPrepending(s, r) ==
    IF s.mode = "idle" THEN s
    ELSE [mode |-> nextMode(s.mode),
          startTime |-> r[3],
          elapsed |-> 0,
          history |-> <<newEntry(s, r[1], r[2])>> \o s.history]

\* handleLap: r[1] is read for the duration, r[2] for the timestamp and
\* r[3] for the new startTime.
handleLap(s, r) ==
    IF s.mode = "idle" THEN s
    ELSE [mode |-> nextMode(s.mode),
          startTime |-> r[3],
          elapsed |-> 0,
          history |-> Append(s.history, newEntry(s, r[1], r[2]))]

\* Faulty variants of handleStop: one records no final segment, one leaves
\* startTime as it is.
handleStopLosing(s, r) ==
    [mode |-> "idle", startTime |-> Null, elapsed |-> 0, history |-> s.history]

handleStopKeepingStart(s, r) ==
    [mode |-> "idle",
     startTime |-> s.startTime,
     elapsed |-> 0,
     history |-> IF s.mode # "idle"
                 THEN Append(s.history, newEntry(s, r[1], r[2]))
                 ELSE s.history]

\* handleStop: r[1] is read for the duration, r[2] for the timestamp.
handleStop(s, r) ==
    [mode |-> "idle",
     startTime |-> Null,
     elapsed |-> 0,
     history |-> IF s.mode # "idle"
                 THEN Append(s.history, newEntry(s, r[1], r[2]))
                 ELSE s.history]

\* handleReset
handleReset(s) ==
    [mode |-> "idle", startTime |-> Null, elapsed |-> 0, history |-> <<>>]

\* historyRows: a run entry opens a row, the next rest entry completes it,
\* a rest entry with no open row gets a row of its own.  A cell is <<>>
\* (null) or holds one entry; open says whether currentRun is set, and
\* currentRun is then the last row.
RECURSIVE pairRows(_, _, _)
pairRows(h, rows, open) ==
    IF h = <<>> THEN rows
    ELSE LET entry == Head(h) IN
         IF entry.mode = "run"
         THEN pairRows(Tail(h),
                       Append(rows, [run |-> <<entry>>, rest |-> <<>>]), TRUE)
         ELSE IF entry.mode = "rest" /\ open
         THEN pairRows(Tail(h),
                       [rows EXCEPT ![Len(rows)].rest = <<entry>>], FALSE)
         ELSE IF entry.mode = "rest" /\ ~open
         THEN pairRows(Tail(h),
                       Append(rows, [run |-> <<>>, rest |-> <<entry>>]), FALSE)
         ELSE pairRows(Tail(h), rows, open)

historyRows(h) == pairRows(h, <<>>, FALSE)

\* The sampling effect: the callback scheduled for state s (its captured
\* startTime), Null when the effect schedules none.
samplingEffect(s) ==
    IF s.mode # "idle" /\ s.startTime # Null THEN s.startTime ELSE Null

\* The setInterval callback: setElapsed(Date.now() - startTime), with the
\* startTime its closure captured.
sample(s, captured) == [s EXCEPT !.elapsed = now - captured]


\* ------------------------------------------------------------ the effects

Mounted(g) == g \in Range(groups)

\* Faulty variant of Sampling: the effect has no cleanup on unmount.
SamplingLeaking(t, gs) ==
    [g \in Ids |-> IF g \in Range(gs) THEN samplingEffect(t[g])
                   ELSE interval[g]]

\* The sampling effect of every mounted group after a commit that leaves
\* the groups gs in the states t: its cleanup clears the old callback, its
\* body schedules the new one (deps [mode, startTime]).
Sampling(t, gs) ==
    [g \in Ids |-> IF g \in Range(gs) THEN samplingEffect(t[g]) ELSE Null]

\* The 'start-all-timers' effect after such a commit (deps [mode]): the
\* listener of an unmounted group is removed, the listener of a mounted
\* group is the closure that captured the mode of its last render.
Listening(t, gs) ==
    [g \in Ids |-> IF g \in Range(gs) THEN t[g].mode ELSE "none"]

\* One commit: the new group states and collection, and the effects.
\* Faulty variant of Commit: the sampling effect depends on the mode only,
\* so that a Lap leaves the callback bound to the earlier startTime.
CommitKeepingCallback(t, gs) ==
    /\ timer' = t
    /\ groups' = gs
    /\ interval' = [g \in Ids |->
                       IF /\ g \in Range(gs) /\ interval[g] # Null
                          /\ t[g].mode # "idle"
                       THEN interval[g] ELSE Sampling(t, gs)[g]]
    /\ listeners' = Listening(t, gs)

Commit(t, gs) ==
    /\ timer' = t
    /\ groups' = gs
    /\ interval' = Sampling(t, gs)
    /\ listeners' = Listening(t, gs)

\* The history variable: op is recorded for g; the record starts again
\* with a Reset and with a start from an empty history.
LogAfter(g, op) ==
    IF \/ op = "Reset"
       \/ op \in {"Start", "StartAll"} /\ timer[g].history = <<>>
    THEN <<op>>
    ELSE Append(log[g], op)

Logged(g, op) == log' = [log EXCEPT ![g] = LogAfter(g, op)]

\* ---------------------------------------------------------------- actions

RECURSIVE Sum(_, _)
Sum(f, S) ==
    IF S = {} THEN 0
    ELSE LET x == CHOOSE y \in S : TRUE IN f[x] + Sum(f, S \ {x})

\* The load of a state (see MaxLoad).  The actions that raise it are
\* enabled only below MaxLoad.
Load ==
    Len(groups)
    + Sum([g \in Ids |-> Len(timer[g].history)
                          + (IF timer[g].mode # "idle" THEN 1 ELSE 0)], Ids)

\* The clock advances between two events.
Advance ==
    /\ UNCHANGED home
    /\ now < MaxTime
    /\ now' = now + 1
    /\ UNCHANGED <<groups, timer, interval, listeners, log>>

\* The Start button, rendered only while the group is idle.
Start(g) ==
    /\ UNCHANGED home
    /\ Mounted(g)
    /\ timer[g].mode = "idle"
    /\ Load < MaxLoad
    /\ LET t == [timer EXCEPT ![g] = handleStart(@, now)]
       IN  Commit(t, groups) /\ Logged(g, "Start")
    /\ UNCHANGED now

\* handleLap.  The handler tests the mode itself, so it is modelled in
\* every mode; in run or rest it reads the clock three times.
Lap(g) ==
    /\ UNCHANGED home
    /\ Mounted(g)
    /\ IF timer[g].mode = "idle"
       THEN /\ Commit([timer EXCEPT ![g] = handleLap(@, <<now, now, now>>)],
                      groups)
            /\ UNCHANGED <<now, log>>
       ELSE /\ Load < MaxLoad
            /\ \E r \in Reads3 :
                 LET t == [timer EXCEPT ![g] = handleLap(@, r)]
                 IN  /\ Commit(t, groups)
                     /\ Logged(g, "Lap")
                     /\ now' = r[3]

\* handleStop.  The handler tests the mode itself, so it is modelled in
\* every mode; in run or rest it reads the clock twice.
Stop(g) ==
    /\ UNCHANGED home
    /\ Mounted(g)
    /\ IF timer[g].mode = "idle"
       THEN /\ Commit([timer EXCEPT ![g] = handleStop(@, <<now, now>>)],
                      groups)
            /\ UNCHANGED <<now, log>>
       ELSE /\ \E r \in Reads2 :
                 LET t == [timer EXCEPT ![g] = handleStop(@, r)]
                 IN  /\ Commit(t, groups)
                     /\ Logged(g, "Stop")
                     /\ now' = r[2]

\* Faulty variant of ResetEnabled: the button is rendered in every mode.
ResetEnabledAnyMode(s) == Len(s.history) > 0

\* The Reset button: rendered only when mode === 'idle' && history.length > 0.
ResetEnabled(s) == s.mode = "idle" /\ Len(s.history) > 0

Reset(g) ==
    /\ UNCHANGED home
    /\ Mounted(g)
    /\ ResetEnabled(timer[g])
    /\ LET t == [timer EXCEPT ![g] = handleReset(@)]
       IN  Commit(t, groups) /\ Logged(g, "Reset")
    /\ UNCHANGED now

\* One firing of the setInterval callback of group g.
Tick(g) ==
    /\ UNCHANGED home
    /\ Mounted(g)
    /\ interval[g] # Null
    /\ Commit([timer EXCEPT ![g] = sample(@, interval[g])], groups)
    /\ UNCHANGED <<now, log>>


\* ----------------------------------------------------------- TimerManager

\* The groups whose registered listener captured mode 'idle': the ones
\* handleGlobalStart starts.
Hearing == {g \in Ids : listeners[g] = "idle"}

\* The readings of Date.now() the handleStart calls of one dispatch can
\* get.  window.dispatchEvent calls the listeners in the order of their
\* registration, which changes each time a group changes mode; the model
\* takes every order as possible, so that the first listener called reads
\* the time the event begins and each other one that time or the next.
StartReads ==
    {rd \in [Ids -> now..Min2(now + 1, MaxTime)] :
        /\ \A g \in Ids \ Hearing : rd[g] = now
        /\ Hearing # {} => \E g \in Hearing : rd[g] = now}

\* Faulty variant of startAll: handleGlobalStart without the test of the
\* mode.
startAllAnyMode(rd) ==
    [g \in Ids |-> IF listeners[g] # "none" THEN handleStart(timer[g], rd[g])
                   ELSE timer[g]]

\* startAll: the dispatch of 'start-all-timers', with handleGlobalStart of
\* every registered listener.
startAll(rd) ==
    [g \in Ids |-> IF g \in Hearing THEN handleStart(timer[g], rd[g])
                   ELSE timer[g]]

StartAll ==
    /\ UNCHANGED home
    /\ Load + Cardinality(Hearing) <= MaxLoad
    /\ \E rd \in StartReads :
         LET t == startAll(rd)
         IN  /\ Commit(t, groups)
             /\ log' = [g \in Ids |-> IF g \in Hearing
                                      THEN LogAfter(g, "StartAll")
                                      ELSE log[g]]
             /\ now' = Max({now} \cup {rd[g] : g \in Hearing})

\* Faulty variant of newId: the number of groups plus one.
newIdByLength == Len(groups) + 1

\* addGroup
newId == IF Len(groups) > 0 THEN Max(Range(groups)) + 1 ELSE 1

AddGroup ==
    /\ UNCHANGED home
    /\ newId <= MaxId
    /\ Load < MaxLoad
    /\ Commit([timer EXCEPT ![newId] = InitGroup], Append(groups, newId))
    /\ log' = [log EXCEPT ![newId] = <<>>]
    /\ UNCHANGED now

\* Faulty variant of removeGroup: the groups after the one removed go too.
removeGroupAndAfter(id) == Filter(groups, {x \in Range(groups) : x < id})

\* removeGroup(id): the TimerGroup is unmounted and its state discarded.
removeGroup(id) == Filter(groups, Range(groups) \ {id})

RemoveGroup(id) ==
    /\ UNCHANGED home
    /\ Mounted(id)
    /\ Commit([timer EXCEPT ![id] = InitGroup], removeGroup(id))
    /\ log' = [log EXCEPT ![id] = <<>>]
    /\ UNCHANGED now

\* ---------------------------------------------------------- specification

DEFAULT_LAP_METERS == 400

\* useState(''): the three fields of the calculator start empty;
\* useState(DEFAULT_LAP_METERS) and useState(String(DEFAULT_LAP_METERS)).
InitHome ==
    [distance |-> <<>>, time |-> <<>>, pace |-> <<>>,
     lapLength |-> [kind |-> "num", n |-> DEFAULT_LAP_METERS, d |-> 1],
     lapLengthInput |-> <<"4", "0", "0">>]

\* useState([{ id: 1 }]): one group, mounted idle with its listener.
Init ==
    /\ now = 1
    /\ groups = <<1>>
    /\ timer = [g \in Ids |-> InitGroup]
    /\ interval = [g \in Ids |-> Null]
    /\ listeners = [g \in Ids |-> IF g = 1 THEN "idle" ELSE "none"]
    /\ log = [g \in Ids |-> <<>>]
    /\ home = InitHome

Next ==
    \/ Advance
    \/ \E g \in Ids : Start(g)
    \/ \E g \in Ids : Lap(g)
    \/ \E g \in Ids : Stop(g)
    \/ \E g \in Ids : Reset(g)
    \/ \E g \in Ids : Tick(g)
    \/ StartAll
    \/ AddGroup
    \/ \E g \in Ids : RemoveGroup(g)

Spec == Init /\ [][Next]_vars

\* ------------------------------------------------------------------ types

Segments == [mode : {"run", "rest"}, duration : 0..MaxTime, timestamp : Times]

TypeOK ==
    /\ now \in Times
    /\ groups \in Seq(Ids)
    /\ \A g \in Ids :
          /\ timer[g].mode \in Modes
          /\ timer[g].startTime \in {Null} \cup Times
          /\ timer[g].elapsed \in 0..MaxTime
          /\ Len(timer[g].history) < MaxLoad
          /\ \A i \in 1..Len(timer[g].history) : timer[g].history[i] \in Segments
          /\ interval[g] \in {Null} \cup Times
          /\ listeners[g] \in Modes \cup {"none"}
    /\ \A g \in Ids \ Range(groups) : timer[g] = InitGroup


\* ------------------------------------------------ the timer state machine

Last(h) == h[Len(h)]

ModeSeq(h) == [i \in 1..Len(h) |-> h[i].mode]

\* h2 is h with exactly one entry added at the end.
OneAppended(h, h2) == Len(h2) = Len(h) + 1 /\ SubSeq(h2, 1, Len(h)) = h

\* l is Start (by the button or by start-all), n times Lap, Stop.
IsSession(l) ==
    /\ Len(l) >= 2
    /\ l[1] \in {"Start", "StartAll"}
    /\ l[Len(l)] = "Stop"
    /\ \A i \in 2..(Len(l) - 1) : l[i] = "Lap"

\* C1: from an idle group with an empty history, Start, n times Lap, Stop
\* leaves exactly n + 1 segments in the history, with modes run, rest, run,
\* ... from the first, and the group idle.
C1_SessionSegments ==
    \A g \in Ids :
        IsSession(log[g]) =>
            /\ Len(timer[g].history) = (Len(log[g]) - 2) + 1
            /\ \A i \in 1..Len(timer[g].history) :
                  timer[g].history[i].mode = IF i % 2 = 1 THEN "run" ELSE "rest"
            /\ timer[g].mode = "idle"

C1_Witness ==
    \E g \in Ids :
        /\ log[g] = <<"Start", "Lap", "Lap", "Stop">>
        /\ ModeSeq(timer[g].history) = <<"run", "rest", "run">>
        /\ timer[g].mode = "idle"

\* C2: a Lap on a group in run or rest adds exactly one segment at the end
\* of the history, with the mode being left and the duration (clock when
\* the Lap is handled - segment-start), flips the mode, sets segment-start
\* to the clock read when the Lap sets it, and sets elapsed to 0.
C2_LapEffect ==
    [][\A g \in Ids :
          (Lap(g) /\ timer[g].mode # "idle") =>
              /\ OneAppended(timer[g].history, timer'[g].history)
              /\ Last(timer'[g].history).mode = timer[g].mode
              /\ Last(timer'[g].history).duration = now - timer[g].startTime
              /\ timer'[g].mode = (IF timer[g].mode = "run" THEN "rest" ELSE "run")
              /\ timer'[g].startTime = now'
              /\ timer'[g].elapsed = 0]_vars

C2_Witness ==
    \E g \in Ids :
        /\ log[g] = <<"Start", "Lap">>
        /\ timer[g].mode = "rest"
        /\ Len(timer[g].history) = 1
        /\ timer[g].history[1].duration > 0
        /\ timer[g].startTime = now

\* C3: a Lap uses one single reading of the clock: the new segment-start is
\* the old segment-start plus the duration just recorded, so that the
\* durations of a session add up to the time from its Start to its Stop.
C3_LapSingleNow ==
    [][\A g \in Ids :
          (Lap(g) /\ timer[g].mode # "idle") =>
              timer'[g].startTime
                  = timer[g].startTime + Last(timer'[g].history).duration]_vars

\* C4: a Stop on a group in run or rest adds exactly one segment at the end
\* of the history, with the mode being left and the duration (clock when
\* the Stop is handled - segment-start), and leaves the group idle, with no
\* segment-start and elapsed 0.
C4_StopEffect ==
    [][\A g \in Ids :
          (Stop(g) /\ timer[g].mode # "idle") =>
              /\ OneAppended(timer[g].history, timer'[g].history)
              /\ Last(timer'[g].history).mode = timer[g].mode
              /\ Last(timer'[g].history).duration = now - timer[g].startTime
              /\ timer'[g].mode = "idle"
              /\ timer'[g].startTime = Null
              /\ timer'[g].elapsed = 0]_vars

C4_Witness ==
    \E g \in Ids :
        /\ log[g] = <<"Start", "Lap", "Stop">>
        /\ timer[g].mode = "idle"
        /\ ModeSeq(timer[g].history) = <<"run", "rest">>
        /\ timer[g].history[2].duration > 0

\* C5: Lap or Stop on an idle group changes nothing: the mode stays idle,
\* segment-start stays absent, elapsed stays 0, the history is unchanged.
C5_IdleNoOp ==
    [][\A g \in Ids :
          ((Lap(g) \/ Stop(g)) /\ timer[g].mode = "idle") =>
              /\ timer'[g].mode = "idle"
              /\ timer'[g].startTime = Null
              /\ timer[g].elapsed = 0 /\ timer'[g].elapsed = 0
              /\ timer'[g].history = timer[g].history]_vars

\* An idle group that has a history to lose, on which Lap and Stop can be
\* invoked.
C5_Witness ==
    \E g \in Ids :
        /\ timer[g].mode = "idle"
        /\ Len(timer[g].history) = 2
        /\ ENABLED (Lap(g) /\ UNCHANGED vars)
        /\ ENABLED (Stop(g) /\ UNCHANGED vars)

\* C6: Reset happens only on an idle group with a non-empty history, it
\* empties the history and leaves the group idle; the history of a group
\* is never emptied while the group is in run or rest.
C6_ResetOnlyIdle ==
    [][\A g \in Ids :
          /\ Reset(g) =>
                /\ timer[g].mode = "idle" /\ Len(timer[g].history) > 0
                /\ timer'[g].history = <<>> /\ timer'[g].mode = "idle"
          /\ (/\ g \in Range(groups) /\ g \in Range(groups')
              /\ timer[g].history # <<>> /\ timer'[g].history = <<>>) =>
                timer[g].mode = "idle" /\ timer'[g].mode = "idle"]_vars

\* A group after its Reset, next to one that keeps its history in run.
C6_Witness ==
    \E g \in Range(groups) :
        /\ log[g] = <<"Reset">>
        /\ timer[g].mode = "idle" /\ timer[g].history = <<>>
        /\ \E h \in Range(groups) :
              timer[h].mode = "run" /\ timer[h].history # <<>>

\* C7: start-all moves every idle group of the collection to run, with a
\* segment-start read during the broadcast and elapsed 0, and leaves the
\* mode, segment-start and history of every group in run or rest unchanged.
C7_StartAll ==
    [][StartAll =>
          \A g \in Range(groups) :
              IF timer[g].mode = "idle"
              THEN /\ timer'[g].mode = "run"
                   /\ timer'[g].startTime \in now..now'
                   /\ timer'[g].startTime # Null
                   /\ timer'[g].elapsed = 0
              ELSE /\ timer'[g].mode = timer[g].mode
                   /\ timer'[g].startTime = timer[g].startTime
                   /\ timer'[g].history = timer[g].history]_vars

\* One group started by start-all while another one, started before by
\* its button, was running.
C7_Witness ==
    \E g, h \in Ids :
        /\ log[g] = <<"StartAll">> /\ timer[g].mode = "run"
        /\ log[h] = <<"Start">> /\ timer[h].mode = "run"
        /\ timer[h].startTime < timer[g].startTime

\* C8: in every reachable history a rest segment comes right after a run
\* segment; so no row of the pairing has an empty run cell, there is one row
\* for each run segment, and the rest cell of a row is empty exactly when
\* its run segment is followed by a run segment or by nothing.
RunIndexes(h) == {i \in 1..Len(h) : h[i].mode = "run"}

C8_RestFollowsRun ==
    \A g \in Ids :
        LET h == timer[g].history
            rows == historyRows(h)
        IN  /\ \A i \in 1..Len(h) :
                  h[i].mode = "rest" => (i > 1 /\ h[i - 1].mode = "run")
            /\ \A k \in 1..Len(rows) : rows[k].run # <<>>
            /\ Len(rows) = Cardinality(RunIndexes(h))
            /\ \A k \in 1..Len(rows) :
                  \E i \in RunIndexes(h) :
                      /\ Cardinality({j \in RunIndexes(h) : j <= i}) = k
                      /\ rows[k].run = <<h[i]>>
                      /\ rows[k].rest = (IF i < Len(h) /\ h[i + 1].mode = "rest"
                                         THEN <<h[i + 1]>> ELSE <<>>)

\* A history with a paired row and rows with an empty rest cell.
C8_Witness ==
    \E g \in Ids :
        /\ ModeSeq(timer[g].history) = <<"run", "rest", "run">>
        /\ Len(historyRows(timer[g].history)) = 2
        /\ historyRows(timer[g].history)[1].rest # <<>>
        /\ historyRows(timer[g].history)[2].rest = <<>>

\* C9: segment-start is absent exactly when the group is idle.
C9_StartAbsentIffIdle ==
    \A g \in Range(groups) :
        (timer[g].startTime = Null) <=> (timer[g].mode = "idle")

\* A group in run after it went idle through Stop, next to an idle one.
C9_Witness ==
    \E g, h \in Range(groups) :
        /\ log[g] = <<"Start", "Stop", "Start">>
        /\ timer[g].mode = "run" /\ timer[g].startTime # Null
        /\ timer[h].mode = "idle" /\ timer[h].startTime = Null

\* C10: a sampling tick changes only the elapsed value of its group, and
\* the duration that Lap and Stop record is read from the clock and
\* segment-start, which no tick changes, not from the elapsed value.
C10_TickOnlyElapsed ==
    [][\A g \in Ids :
          /\ Tick(g) =>
                /\ timer'[g].mode = timer[g].mode
                /\ timer'[g].startTime = timer[g].startTime
                /\ timer'[g].history = timer[g].history
                /\ \A h \in Ids \ {g} : timer'[h] = timer[h]
                /\ UNCHANGED <<now, groups>>
          /\ ((Lap(g) \/ Stop(g)) /\ timer[g].mode # "idle") =>
                Last(timer'[g].history).duration = now - timer[g].startTime]_vars

\* A segment recorded with a duration, in a group whose tick has fired
\* since.
C10_Witness ==
    \E g \in Ids :
        /\ log[g] = <<"Start", "Lap">>
        /\ timer[g].history[1].duration > 0
        /\ timer[g].mode = "rest"
        /\ timer[g].elapsed > 0


\* C11: a sampling callback is scheduled only for a group that is mounted
\* and in run or rest: none stays after a Stop or after the removal of the
\* group, in whatever mode; a removed group has no 'start-all-timers'
\* listener and start-all does not touch it.
C11_NoOrphanTimer ==
    /\ [](\A g \in Ids :
            /\ interval[g] # Null => (Mounted(g) /\ timer[g].mode # "idle")
            /\ ~Mounted(g) => (listeners[g] = "none" /\ g \notin Hearing))
    /\ [][\A g \in Ids :
            /\ (Stop(g) \/ RemoveGroup(g)) => interval'[g] = Null
            /\ (StartAll /\ ~Mounted(g)) => timer'[g] = timer[g]]_vars

\* Group 1 has been removed, and group 2 samples; no callback or listener
\* of group 1 is left.
C11_Witness ==
    /\ 1 \notin Range(groups)
    /\ interval[1] = Null /\ listeners[1] = "none"
    /\ 2 \in Range(groups)
    /\ timer[2].mode = "run" /\ interval[2] # Null /\ timer[2].elapsed > 0

\* The timestamps do not decrease along h and no duration is negative.
Chronological(h) ==
    /\ \A i \in 1..Len(h) : h[i].duration >= 0
    /\ \A i, j \in 1..Len(h) : i <= j => h[i].timestamp <= h[j].timestamp

\* C12: Lap and Stop change a history only by adding one entry at its end;
\* with the non-decreasing clock, the completion timestamps do not decrease
\* along any history and every duration is >= 0.
C12_Chronological ==
    /\ [](\A g \in Ids : Chronological(timer[g].history))
    /\ [][\A g \in Ids :
            (Lap(g) \/ Stop(g)) =>
                \/ timer'[g].history = timer[g].history
                \/ OneAppended(timer[g].history, timer'[g].history)]_vars

C12_Witness ==
    \E g \in Ids :
        /\ log[g] = <<"Start", "Lap", "Stop">>
        /\ timer[g].history[1].timestamp < timer[g].history[2].timestamp
        /\ timer[g].history[1].duration > 0

\* C13: Start, Lap, Stop and Reset on one group, and its removal, leave
\* every other group in the collection, with its mode, segment-start,
\* elapsed and history.
C13_GroupsIndependent ==
    [][\A g \in Ids :
          (Start(g) \/ Lap(g) \/ Stop(g) \/ Reset(g) \/ RemoveGroup(g)) =>
              \A h \in Range(groups) \ {g} :
                  /\ h \in Range(groups')
                  /\ timer'[h] = timer[h]]_vars

\* Group 1 has been removed while group 2 keeps a segment, a running
\* session and a sampled elapsed value.
C13_Witness ==
    /\ groups = <<2>>
    /\ log[2] = <<"Start", "Lap">>
    /\ timer[2].mode = "rest"
    /\ timer[2].elapsed > 0

\* h is a prefix of h2.
IsPrefix(h, h2) == Len(h) <= Len(h2) /\ SubSeq(h2, 1, Len(h)) = h

\* C14: the Start button is offered to every idle group, whatever its
\* history; Start and start-all leave every history as it is; and the
\* segments of a group stay in its history, in place, until its Reset.
C14_ReEntrant ==
    /\ [](\A g \in Range(groups) :
            (timer[g].mode = "idle" /\ Load < MaxLoad) => ENABLED Start(g))
    /\ [][/\ \A g \in Ids :
               (Start(g) \/ StartAll) => timer'[g].history = timer[g].history
          /\ \A g \in Range(groups) \cap Range(groups') :
               IsPrefix(timer[g].history, timer'[g].history) \/ Reset(g)]_vars

\* Two sessions of one group, both kept in its history.
C14_Witness ==
    \E g \in Ids :
        /\ log[g] = <<"Start", "Stop", "Start", "Lap">>
        /\ ModeSeq(timer[g].history) = <<"run", "run">>
        /\ timer[g].mode = "rest"


\* ==================================================================== Home
\* The calculator (Home): its three text fields and what a render derives
\* from them.

\* ------------------------------------------------------- numbers and texts

\* A JavaScript number is modelled exactly, as a fraction n/d in lowest
\* terms with d > 0; NaN and null are values of their own.  A text is a
\* sequence of one-character strings.
RECURSIVE GCD(_, _)
GCD(a, b) == IF b = 0 THEN a ELSE GCD(b, a % b)

Abs(x) == IF x < 0 THEN -x ELSE x

Num(n, d) ==
    LET g == GCD(Abs(n), d)
    IN  [kind |-> "num", n |-> n \div g, d |-> d \div g]

NaN == [kind |-> "nan"]
NullV == [kind |-> "null"]

IsNum(x) == x.kind = "num"

QAdd(x, y) == Num(x.n * y.d + y.n * x.d, x.d * y.d)
QMul(x, y) == Num(x.n * y.n, x.d * y.d)
\* x / y for y # 0
QDiv(x, y) == IF y.n > 0 THEN Num(x.n * y.d, x.d * y.n)
              ELSE Num(-(x.n * y.d), x.d * (-y.n))
QLess(x, y) == x.n * y.d < y.n * x.d
QInt(k) == Num(k, 1)
QAbs(x) == Num(Abs(x.n), x.d)
QSub(x, y) == Num(x.n * y.d - y.n * x.d, x.d * y.d)
QLeq(x, y) == ~QLess(y, x)

\* Math.floor and Math.round (which rounds a half up)
QFloor(x) == x.n \div x.d
QRound(x) == (2 * x.n + x.d) \div (2 * x.d)

\* Boolean(x) and !x: null, NaN and 0 are falsy.
Truthy(x) == IsNum(x) /\ x.n # 0

Digits == {"0", "1", "2", "3", "4", "5", "6", "7", "8", "9"}

DigitValue(c) ==
    CASE c = "0" -> 0 [] c = "1" -> 1 [] c = "2" -> 2 [] c = "3" -> 3
      [] c = "4" -> 4 [] c = "5" -> 5 [] c = "6" -> 6 [] c = "7" -> 7
      [] c = "8" -> 8 [] c = "9" -> 9

RECURSIVE Pow10(_)
Pow10(k) == IF k = 0 THEN 1 ELSE 10 * Pow10(k - 1)

\* The integer a text of digits denotes (0 for the empty text).
RECURSIVE DigitsValue(_)
DigitsValue(t) ==
    IF t = <<>> THEN 0
    ELSE 10 * DigitsValue(SubSeq(t, 1, Len(t) - 1)) + DigitValue(t[Len(t)])

\* String.prototype.trim, for the space character.
RECURSIVE trimStart(_)
trimStart(t) ==
    IF t # <<>> /\ Head(t) = " " THEN trimStart(Tail(t)) ELSE t

RECURSIVE trimEnd(_)
trimEnd(t) ==
    IF t # <<>> /\ t[Len(t)] = " " THEN trimEnd(SubSeq(t, 1, Len(t) - 1))
    ELSE t

trim(t) == trimEnd(trimStart(t))

\* The texts digits, digits "." digits*, and "." digits, which are the
\* unsigned decimal literals of JavaScript without exponent.
Points(t) == {i \in 1..Len(t) : t[i] = "."}

IsUnsignedDecimal(t) ==
    /\ \A i \in 1..Len(t) : t[i] \in Digits \cup {"."}
    /\ Cardinality(Points(t)) <= 1
    /\ \E i \in 1..Len(t) : t[i] \in Digits

\* The value of such a literal.
UnsignedDecimalValue(t) ==
    IF Points(t) = {} THEN QInt(DigitsValue(t))
    ELSE LET p == CHOOSE i \in Points(t) : TRUE
             whole == SubSeq(t, 1, p - 1)
             frac == SubSeq(t, p + 1, Len(t))
         IN  QAdd(QInt(DigitsValue(whole)),
                  Num(DigitsValue(frac), Pow10(Len(frac))))

\* Number(text), for texts of digits, ".", "-", ":", " " and letters: white
\* space around is dropped, the empty text is 0, a decimal literal with an
\* optional sign is its value, anything else is NaN.
Number(text) ==
    LET t == trim(text) IN
    IF t = <<>> THEN QInt(0)
    ELSE IF Head(t) = "-"
         THEN IF IsUnsignedDecimal(Tail(t))
              THEN QMul(QInt(-1), UnsignedDecimalValue(Tail(t)))
              ELSE NaN
         ELSE IF IsUnsignedDecimal(t) THEN UnsignedDecimalValue(t) ELSE NaN

\* /^\d+(\.\d+)?$/.test(t)
matchesDecimal(t) ==
    /\ t # <<>>
    /\ t[1] \in Digits /\ t[Len(t)] \in Digits
    /\ IsUnsignedDecimal(t)

\* parseFloat(t) for a text that is a decimal literal with an optional sign
\* (what the test of parseDurationInput and an input of type number let
\* through).
parseFloat(t) == Number(t)

\* t.split(':')
RECURSIVE split(_)
split(t) ==
    IF \A i \in 1..Len(t) : t[i] # ":" THEN <<t>>
    ELSE LET c == CHOOSE i \in 1..Len(t) :
                      t[i] = ":" /\ \A j \in 1..(i - 1) : t[j] # ":"
         IN  <<SubSeq(t, 1, c - 1)>> \o split(SubSeq(t, c + 1, Len(t)))

\* ----------------------------------------------------- parseDurationInput

\* Faulty variant of parseDurationInput: a bare number is taken as seconds.
parseDurationInputSeconds(value) ==
    IF value = <<>> THEN NullV
    ELSE LET trimmed == trim(value) IN
    IF trimmed = <<>> THEN NullV
    ELSE LET parts == split(trimmed)
             segments == [i \in 1..Len(parts) |-> Number(parts[i])]
         IN  IF \E i \in 1..Len(segments) : segments[i] = NaN THEN NullV
             ELSE IF Len(segments) = 3
                  THEN QAdd(QAdd(QMul(segments[1], QInt(3600)),
                                 QMul(segments[2], QInt(60))), segments[3])
             ELSE IF Len(segments) = 2
                  THEN QAdd(QMul(segments[1], QInt(60)), segments[2])
             ELSE IF IsNum(Number(trimmed)) THEN Number(trimmed) ELSE NullV

\* parseDurationInput(value): the seconds a typed duration denotes, NullV
\* (null) when it denotes none.
parseDurationInput(value) ==
    IF value = <<>> THEN NullV
    ELSE LET trimmed == trim(value) IN
    IF trimmed = <<>> THEN NullV
    ELSE IF matchesDecimal(trimmed)
         THEN QMul(parseFloat(trimmed), QInt(60))
    ELSE LET parts == split(trimmed)
             segments == [i \in 1..Len(parts) |-> Number(parts[i])]
         IN  IF \E i \in 1..Len(segments) : segments[i] = NaN THEN NullV
             ELSE IF Len(segments) = 3
                  THEN QAdd(QAdd(QMul(segments[1], QInt(3600)),
                                 QMul(segments[2], QInt(60))), segments[3])
             ELSE IF Len(segments) = 2
                  THEN QAdd(QMul(segments[1], QInt(60)), segments[2])
             ELSE IF IsNum(Number(trimmed)) THEN Number(trimmed) ELSE NullV

\* ------------------------------------------------------------- formatting

DigitChar(d) == CHOOSE c \in Digits : DigitValue(c) = d

\* String(n) for a natural number n
RECURSIVE IntToText(_)
IntToText(n) ==
    IF n < 10 THEN <<DigitChar(n)>>
    ELSE IntToText(n \div 10) \o <<DigitChar(n % 10)>>

\* String(n).padStart(k, '0')
RECURSIVE padStart(_, _)
padStart(t, k) == IF Len(t) < k THEN padStart(<<"0">> \o t, k) ELSE t

padTime(value) == padStart(IntToText(value), 2)

\* x.toFixed(k) for x > 0, rounding a half up.
toFixed(x, k) ==
    LET r == QRound(QMul(x, QInt(Pow10(k))))
    IN  IF k = 0 THEN IntToText(r)
        ELSE IntToText(r \div Pow10(k)) \o <<".">>
             \o padStart(IntToText(r % Pow10(k)), k)

\* n.toLocaleString('pt-BR') for a natural number n: groups of three digits
\* separated by "."
RECURSIVE grouped(_)
grouped(n) ==
    IF n < 1000 THEN IntToText(n)
    ELSE grouped(n \div 1000) \o <<".">> \o padStart(IntToText(n % 1000), 3)

RECURSIVE dropZeros(_)
dropZeros(t) ==
    IF t # <<>> /\ t[Len(t)] = "0" THEN dropZeros(SubSeq(t, 1, Len(t) - 1))
    ELSE t

\* x.toLocaleString('pt-BR') for x >= 0: at most three fraction digits,
\* after a ","
toLocaleString(x) ==
    LET r == QRound(QMul(x, QInt(1000)))
        frac == dropZeros(padStart(IntToText(r % 1000), 3))
    IN  grouped(r \div 1000) \o (IF frac = <<>> THEN <<>> ELSE <<",">> \o frac)

\* The text shown for a value that is missing (an em dash in the source).
Dash == <<"dash">>

formatDuration(seconds) ==
    IF ~Truthy(seconds) \/ ~QLess(QInt(0), seconds) THEN NullV
    ELSE LET rounded == QRound(seconds)
             hours == rounded \div 3600
             minutes == (rounded % 3600) \div 60
             secs == rounded % 60
         IN  IF hours > 0
             THEN IntToText(hours) \o <<":">> \o padTime(minutes)
                  \o <<":">> \o padTime(secs)
             ELSE IntToText(minutes) \o <<":">> \o padTime(secs)

formatPace(secondsPerKm) ==
    IF ~Truthy(secondsPerKm) \/ ~QLess(QInt(0), secondsPerKm) THEN NullV
    ELSE LET rounded == QRound(secondsPerKm)
             minutes == rounded \div 60
             seconds == rounded % 60
         IN  IntToText(minutes) \o <<":">> \o padTime(seconds)
             \o <<" ", "m", "i", "n", "/", "k", "m">>

formatMeters(value) ==
    IF ~IsNum(value) THEN Dash
    ELSE toLocaleString(value) \o <<" ", "m">>

\* ------------------------------------------------------- Home: the render

METERS_IN_KM == 1000

\* An input of type number hands over the empty text or a decimal literal.
distanceValue ==
    IF trim(home.distance) = <<>> THEN NullV ELSE parseFloat(home.distance)

hasDistance ==
    IsNum(distanceValue) /\ QLess(QInt(0), distanceValue)

distanceKm ==
    IF hasDistance THEN QDiv(distanceValue, QInt(METERS_IN_KM)) ELSE NullV

timeSeconds == parseDurationInput(home.time)
paceSeconds == parseDurationInput(home.pace)

hasTime == Truthy(timeSeconds)
hasPace == Truthy(paceSeconds)

paceResult ==
    IF ~Truthy(distanceKm) \/ ~Truthy(timeSeconds) THEN NullV
    ELSE formatPace(QDiv(timeSeconds, distanceKm))

timeResult ==
    IF ~Truthy(distanceKm) \/ ~Truthy(paceSeconds) THEN NullV
    ELSE formatDuration(QMul(paceSeconds, distanceKm))

\* The kilometers of distanceResult, NullV where it returns null.
kilometers ==
    IF ~Truthy(timeSeconds) \/ ~Truthy(paceSeconds) THEN NullV
    ELSE LET km == QDiv(timeSeconds, paceSeconds)
         IN  IF ~QLess(QInt(0), km) THEN NullV ELSE km

distanceResult ==
    IF kilometers = NullV THEN NullV
    ELSE toFixed(QMul(kilometers, QInt(METERS_IN_KM)), 0) \o <<" ", "m", " ", "(">>
         \o toFixed(kilometers, 2) \o <<" ", "k", "m", ")">>

providedCount ==
    Cardinality({f \in {"distance", "time", "pace"} :
                    \/ f = "distance" /\ hasDistance
                    \/ f = "time" /\ hasTime
                    \/ f = "pace" /\ hasPace})

\* Faulty variant of highlightedField: null only when nothing is provided.
highlightedFieldLoose ==
    IF providedCount = 0 THEN "null"
    ELSE IF ~hasDistance THEN "distance"
    ELSE IF ~hasTime THEN "time"
    ELSE IF ~hasPace THEN "pace"
    ELSE "null"

\* highlightedField: "null" for null
highlightedField ==
    IF providedCount # 2 THEN "null"
    ELSE IF ~hasDistance THEN "distance"
    ELSE IF ~hasTime THEN "time"
    ELSE IF ~hasPace THEN "pace"
    ELSE "null"

distanceIsCalculated == ~hasDistance /\ distanceResult # NullV
timeIsCalculated == ~hasTime /\ timeResult # NullV
paceIsCalculated == ~hasPace /\ paceResult # NullV

distanceDisplay ==
    IF hasDistance THEN formatMeters(distanceValue)
    ELSE IF distanceResult # NullV THEN distanceResult ELSE Dash

\* Faulty variant of timeDisplay: the derived time goes before the typed one.
timeDisplayDerivedFirst ==
    IF timeResult # NullV THEN timeResult
    ELSE IF home.time # <<>> THEN home.time
    ELSE Dash

\* time || timeResult || dash
timeDisplay ==
    IF home.time # <<>> THEN home.time
    ELSE IF timeResult # NullV THEN timeResult
    ELSE Dash

paceDisplay ==
    IF home.pace # <<>> THEN home.pace
    ELSE IF paceResult # NullV THEN paceResult
    ELSE Dash

\* ------------------------------------------------- Home: laps and splits

lapLengthSafe ==
    IF QLess(QInt(0), home.lapLength) THEN home.lapLength
    ELSE QInt(DEFAULT_LAP_METERS)

\* x % y for x >= 0 and y > 0
QMod(x, y) == QSub(x, QMul(y, QInt(QFloor(QDiv(x, y)))))

\* Faulty variant of lapData: the remainder is counted from the lap count
\* rounded to the nearest lap.
lapDataNearest ==
    IF ~hasDistance THEN NullV
    ELSE LET totalMeters == distanceValue
             lapCount == QDiv(totalMeters, lapLengthSafe)
             fullLaps == QRound(lapCount)
         IN  [kind |-> "lapData",
              lapCount |-> lapCount,
              fullLaps |-> fullLaps,
              remainderMeters |->
                 QRound(QSub(totalMeters, QMul(QInt(fullLaps), lapLengthSafe))),
              progress |-> IF lapCount.n = 0 THEN QInt(0)
                           ELSE QMod(lapCount, QInt(1))]

lapData ==
    IF ~hasDistance THEN NullV
    ELSE LET totalMeters == distanceValue
             lapCount == QDiv(totalMeters, lapLengthSafe)
             fullLaps == QFloor(lapCount)
         IN  [kind |-> "lapData",
              lapCount |-> lapCount,
              fullLaps |-> fullLaps,
              remainderMeters |->
                 QRound(QSub(totalMeters, QMul(QInt(fullLaps), lapLengthSafe))),
              progress |-> IF lapCount.n = 0 THEN QInt(0)
                           ELSE QMod(lapCount, QInt(1))]

\* Faulty variant of progress: the fraction of the lap as lapData has it.
progressRaw ==
    IF lapData = NullV THEN QInt(0) ELSE lapData.progress

\* TrackVisual: the progress drawn on the track.
progress ==
    IF lapData # NullV /\ lapData.progress = QInt(0)
       /\ QLess(QInt(0), lapData.lapCount)
    THEN QInt(1)
    ELSE IF lapData = NullV THEN QInt(0) ELSE lapData.progress

\* Faulty variant of splitTime: the total time goes before the pace.
splitTimeFromTotal(cumulativeMeters, final) ==
    IF Truthy(timeSeconds)
    THEN IF final THEN formatDuration(timeSeconds)
         ELSE formatDuration(QMul(timeSeconds,
                                  QDiv(cumulativeMeters, distanceValue)))
    ELSE IF Truthy(paceSeconds)
    THEN formatDuration(QMul(paceSeconds,
                             QDiv(cumulativeMeters, QInt(METERS_IN_KM))))
    ELSE NullV

\* The time of the split at cumulativeMeters; final tells the last,
\* partial lap.
splitTime(cumulativeMeters, final) ==
    IF Truthy(paceSeconds)
    THEN formatDuration(QMul(paceSeconds,
                             QDiv(cumulativeMeters, QInt(METERS_IN_KM))))
    ELSE IF Truthy(timeSeconds)
    THEN IF final THEN formatDuration(timeSeconds)
         ELSE formatDuration(QMul(timeSeconds,
                                  QDiv(cumulativeMeters, distanceValue)))
    ELSE NullV

\* One entry of lapSplits; lap and cumulativeMeters are the two numbers
\* of its label.
splitEntry(lap, cumulativeMeters, final) ==
    [lap |-> lap, cumulativeMeters |-> cumulativeMeters,
     time |-> splitTime(cumulativeMeters, final), isFinal |-> final]

\* Faulty variant of lapSplits: the test of line 1256 is strict the other
\* way round, so that one complete lap gets its split.
lapSplitsFromOneLap ==
    IF ~hasDistance THEN <<>>
    ELSE LET totalMeters == distanceValue IN
    IF QLess(totalMeters, lapLengthSafe) THEN <<>>
    ELSE LET fullLaps == QFloor(QDiv(totalMeters, lapLengthSafe))
             laps == [lap \in 1..fullLaps |->
                         splitEntry(lap, QMul(QInt(lap), lapLengthSafe), FALSE)]
             remainder == QMod(totalMeters, lapLengthSafe)
         IN  IF QLess(QInt(0), remainder)
             THEN Append(laps, splitEntry(fullLaps + 1, totalMeters, TRUE))
             ELSE laps

\* Faulty variant of lapSplits: the final entry is added whatever the
\* remainder.
lapSplitsAlwaysFinal ==
    IF ~hasDistance THEN <<>>
    ELSE LET totalMeters == distanceValue IN
    IF QLeq(totalMeters, lapLengthSafe) THEN <<>>
    ELSE LET fullLaps == QFloor(QDiv(totalMeters, lapLengthSafe))
             laps == [lap \in 1..fullLaps |->
                         splitEntry(lap, QMul(QInt(lap), lapLengthSafe), FALSE)]
         IN  Append(laps, splitEntry(fullLaps + 1, totalMeters, TRUE))

lapSplits ==
    IF ~hasDistance THEN <<>>
    ELSE LET totalMeters == distanceValue IN
    IF QLeq(totalMeters, lapLengthSafe) THEN <<>>
    ELSE LET fullLaps == QFloor(QDiv(totalMeters, lapLengthSafe))
             laps == [lap \in 1..fullLaps |->
                         splitEntry(lap, QMul(QInt(lap), lapLengthSafe), FALSE)]
             remainder == QMod(totalMeters, lapLengthSafe)
         IN  IF QLess(QInt(0), remainder)
             THEN Append(laps, splitEntry(fullLaps + 1, totalMeters, TRUE))
             ELSE laps

\* ------------------------------------------------------ Home: the actions

timerVars == <<now, groups, timer, interval, listeners, log>>

\* The onChange handlers of the three fields.
setDistance(t) ==
    /\ home' = [home EXCEPT !.distance = t]
    /\ UNCHANGED timerVars

setTime(t) ==
    /\ home' = [home EXCEPT !.time = t]
    /\ UNCHANGED timerVars

setPace(t) ==
    /\ home' = [home EXCEPT !.pace = t]
    /\ UNCHANGED timerVars

\* Faulty variant of handleLapLengthInput: a text that is no positive number
\* sets lapLength to what it denotes (0 for a text that denotes nothing).
handleLapLengthInputUnguarded(nextValue) ==
    LET parsed == Number(nextValue)
    IN  /\ home' = [home EXCEPT !.lapLengthInput = nextValue,
                                !.lapLength = IF IsNum(parsed) THEN parsed
                                              ELSE QInt(0)]
        /\ UNCHANGED timerVars

\* Faulty variant of handleLapLengthInput: the test is parsed >= 0, so that
\* 0 and the empty text are applied.
handleLapLengthInputNonNegative(nextValue) ==
    LET parsed == Number(nextValue)
    IN  /\ home' = [home EXCEPT !.lapLengthInput = nextValue,
                                !.lapLength =
                                   IF IsNum(parsed) /\ QLeq(QInt(0), parsed)
                                   THEN parsed ELSE @]
        /\ UNCHANGED timerVars

\* handleLapLengthInput, with event.target.value = nextValue
handleLapLengthInput(nextValue) ==
    LET parsed == Number(nextValue)
    IN  /\ home' = [home EXCEPT !.lapLengthInput = nextValue,
                                !.lapLength =
                                   IF IsNum(parsed) /\ QLess(QInt(0), parsed)
                                   THEN parsed ELSE @]
        /\ UNCHANGED timerVars

handleResetLapLength ==
    /\ home' = [home EXCEPT !.lapLength = QInt(DEFAULT_LAP_METERS),
                            !.lapLengthInput = IntToText(DEFAULT_LAP_METERS)]
    /\ UNCHANGED timerVars

\* Typing into the time field, one key at a time: a character of Chars is
\* added at the end, or the last character is erased.
MaxLen == 5

Chars == {"0", "9", ":", ".", "-", " ", "x"}

TypeTime(c) ==
    /\ Len(home.time) < MaxLen
    /\ setTime(Append(home.time, c))

EraseTime ==
    /\ home.time # <<>>
    /\ setTime(SubSeq(home.time, 1, Len(home.time) - 1))

NextParse ==
    \/ \E c \in Chars : TypeTime(c)
    \/ EraseTime

SpecParse == Init /\ [][NextParse]_vars

\* Filling the three fields with whole texts.
DistanceTexts ==
    { <<>>, <<"0">>, <<"-", "5">>, <<"3", "0", "0">>, <<"4", "0", "0">>,
      <<"3", "9", "9", ".", "6">>, <<"4", "0", "0", ".", "4">>,
      <<"8", "0", "0">>, <<"1", "0", "0", "0">>,
      <<"2", "5", "0", "0">>, <<"1", "0", "0", "0", "0">> }

\* The lap-length field is an input of type number: it hands over the
\* empty text (also for what is not a number) or a decimal literal.
LapLengthTexts ==
    { <<>>, <<"0">>, <<"-", "5">>, <<"2", "0", "0">>, <<"4", "0", "0">> }

DurationTexts ==
    { <<>>, <<" ">>, <<"x", "x">>, <<"0">>, <<"-", "5">>, <<"5">>,
      <<"4", "5">>, <<"4", ":", "3", "0">>, <<"0", ":", "0", "4">> }

\* The pace the result tile shows, as a text one can type into the pace
\* field.
ShownPace ==
    IF paceResult = NullV THEN {}
    ELSE {SubSeq(paceResult, 1, Len(paceResult) - 7)}

NextHome ==
    \/ \E t \in DistanceTexts : setDistance(t)
    \/ \E t \in DurationTexts : setTime(t)
    \/ \E t \in DurationTexts \cup ShownPace : setPace(t)
    \/ \E t \in LapLengthTexts : handleLapLengthInput(t)
    \/ handleResetLapLength

SpecHome == Init /\ [][NextHome]_vars

TypeHomeOK ==
    /\ home.distance \in Seq(Digits \cup Chars)
    /\ home.time \in Seq(Digits \cup Chars)
    /\ home.pace \in Seq(Digits \cup Chars)

\* ======================================================= claims about Home

\* The text before the first space of a result, the number it shows.
RECURSIVE firstWord(_)
firstWord(t) ==
    IF t = <<>> \/ Head(t) = " " THEN <<>> ELSE <<Head(t)>> \o firstWord(Tail(t))

\* The seconds a derived pace or time shows, read back from its text.
ShownSeconds(result) == parseDurationInput(firstWord(result))

\* C15: with exactly two of the three quantities known, distance d and time
\* t give the pace t / (d / 1000), distance d and pace p give the time
\* p x (d / 1000), and time t and pace p give the distance t / p x 1000
\* metres, with no result when that ratio is not positive; the derived
\* distance times p over 1000 is t.  (A result shows the value rounded to
\* the whole second or metre.)
C15_Derivation ==
    LET d == distanceValue
        t == timeSeconds
        p == paceSeconds
        km == QDiv(d, QInt(1000))
    IN  /\ (hasDistance /\ hasTime /\ ~hasPace) =>
              /\ paceResult # NullV
              /\ ShownSeconds(paceResult) = QInt(QRound(QDiv(t, km)))
        /\ (hasDistance /\ hasPace /\ ~hasTime) =>
              /\ timeResult # NullV
              /\ ShownSeconds(timeResult) = QInt(QRound(QMul(p, km)))
        /\ (hasTime /\ hasPace /\ ~hasDistance) =>
              IF QLess(QInt(0), QDiv(t, p))
              THEN /\ distanceResult # NullV
                   /\ DigitsValue(firstWord(distanceResult))
                         = QRound(QMul(QDiv(t, p), QInt(1000)))
                   /\ QDiv(QMul(QMul(kilometers, QInt(1000)), p), QInt(1000)) = t
              ELSE distanceResult = NullV

\* Two of the fields denote a quantity and the third does not.
ExactlyTwoKnown ==
    \/ hasDistance /\ hasTime /\ ~hasPace
    \/ hasDistance /\ ~hasTime /\ hasPace
    \/ ~hasDistance /\ hasTime /\ hasPace

\* C16: a field is highlighted exactly when exactly two of distance, time
\* and pace are known, and it is then the one that is not known.
C16_Highlighted ==
    /\ highlightedField # "null" <=> ExactlyTwoKnown
    /\ highlightedField = "distance" => ~hasDistance
    /\ highlightedField = "time" => ~hasTime
    /\ highlightedField = "pace" => ~hasPace

\* 400 m in 4:30 with the pace left empty: the pace is highlighted.
C16_Witness ==
    /\ home.distance = <<"4", "0", "0">>
    /\ home.time = <<"4", ":", "3", "0">>
    /\ home.pace = <<>>
    /\ highlightedField = "pace"

\* C17: at most one of the three fields is flagged calculated, and when all
\* three are known none is: each shows the value that was typed, not one
\* derived from the other two.
C17_AtMostOneCalculated ==
    /\ ~(distanceIsCalculated /\ timeIsCalculated)
    /\ ~(distanceIsCalculated /\ paceIsCalculated)
    /\ ~(timeIsCalculated /\ paceIsCalculated)
    /\ (hasDistance /\ hasTime /\ hasPace) =>
          /\ ~distanceIsCalculated /\ ~timeIsCalculated /\ ~paceIsCalculated
          /\ distanceDisplay = formatMeters(Number(home.distance))
          /\ timeDisplay = home.time
          /\ paceDisplay = home.pace

\* 1000 m, 5 minutes and a pace of 4:30, which do not agree (1000 m at 4:30
\* is 4:30): the time shown is the one typed.
C17_Witness ==
    /\ home.distance = <<"1", "0", "0", "0">>
    /\ home.time = <<"5">>
    /\ home.pace = <<"4", ":", "3", "0">>
    /\ timeResult = <<"4", ":", "3", "0">>
    /\ timeDisplay = <<"5">>
    /\ ~timeIsCalculated

\* A decimal numeral: digits, optionally followed by "." and digits.
IsDecimalNumeral(t) ==
    \/ t # <<>> /\ \A i \in 1..Len(t) : t[i] \in Digits
    \/ \E p \in 2..(Len(t) - 1) :
          /\ t[p] = "."
          /\ \A i \in (1..Len(t)) \ {p} : t[i] \in Digits

\* The number a decimal numeral denotes: its digits read as an integer, over
\* the power of ten of the digits that follow the point.
DecimalValue(t) ==
    LET after == Cardinality({i \in 1..Len(t) :
                                 \E p \in 1..(i - 1) : t[p] = "."})
    IN  Num(DigitsValue(Filter(t, Digits)), Pow10(after))

Colons(t) == {i \in 1..Len(t) : t[i] = ":"}

\* C18: parseDurationInput reads a decimal numeral n without colon as n x 60
\* seconds, 'm:s' as m x 60 + s and 'h:m:s' as h x 3600 + m x 60 + s, with
\* no bound and no carry on the segments ('0:90' is 90 seconds), and finds
\* no duration in an empty or blank text; '45' and '45:00' are 2700 seconds
\* and '1:00:00' is 3600.
C18_ParseDuration ==
    LET t == trim(home.time)
        seg(a, b) == SubSeq(t, a, b)
    IN  /\ t = <<>> => timeSeconds = NullV
        /\ IsDecimalNumeral(t) =>
              timeSeconds = QMul(DecimalValue(t), QInt(60))
        /\ \A c \in Colons(t) :
              (/\ Colons(t) = {c}
               /\ IsDecimalNumeral(seg(1, c - 1))
               /\ IsDecimalNumeral(seg(c + 1, Len(t))))
              => timeSeconds =
                    QAdd(QMul(DecimalValue(seg(1, c - 1)), QInt(60)),
                         DecimalValue(seg(c + 1, Len(t))))
        /\ \A c \in Colons(t) : \A e \in Colons(t) :
              (/\ c < e /\ Colons(t) = {c, e}
               /\ IsDecimalNumeral(seg(1, c - 1))
               /\ IsDecimalNumeral(seg(c + 1, e - 1))
               /\ IsDecimalNumeral(seg(e + 1, Len(t))))
              => timeSeconds =
                    QAdd(QAdd(QMul(DecimalValue(seg(1, c - 1)), QInt(3600)),
                              QMul(DecimalValue(seg(c + 1, e - 1)), QInt(60))),
                         DecimalValue(seg(e + 1, Len(t))))
        /\ parseDurationInput(<<"4", "5">>) = QInt(2700)
        /\ parseDurationInput(<<"4", "5", ":", "0", "0">>) = QInt(2700)
        /\ parseDurationInput(<<"1", ":", "0", "0", ":", "0", "0">>) = QInt(3600)
        /\ parseDurationInput(<<" ", " ">>) = NullV

\* '0:90' has been typed and is read as 90 seconds.
C18_Witness ==
    /\ home.time = <<"0", ":", "9", "0">>
    /\ timeSeconds = QInt(90)

\* A text that is a number: not blank, and read by Number as a number.
IsNumberText(t) == trim(t) # <<>> /\ Number(t) # NaN

\* C19: parseDurationInput finds no duration in a text of which at least
\* one of the segments between the colons is not a number, an empty segment
\* included ('abc', '4:xx', '4:', ':30').
C19_NonNumericSegment ==
    LET parts == split(trim(home.time))
    IN  (\E i \in 1..Len(parts) : ~IsNumberText(parts[i]))
        => timeSeconds = NullV

\* C20: every duration parseDurationInput returns is non-negative, and a
\* time counted as known is positive.
C20_NonNegative ==
    /\ IsNum(timeSeconds) => ~QLess(timeSeconds, QInt(0))
    /\ hasTime => QLess(QInt(0), timeSeconds)

\* C21: a text that denotes no duration counts as a field left empty: when
\* the other two quantities are known the field is flagged calculated and
\* shows the derived value, not the text that was typed.
C21_UnparseableNotProvided ==
    /\ (home.time # <<>> /\ timeSeconds = NullV /\ hasDistance /\ hasPace) =>
          timeIsCalculated /\ timeDisplay = timeResult
    /\ (home.pace # <<>> /\ paceSeconds = NullV /\ hasDistance /\ hasTime) =>
          paceIsCalculated /\ paceDisplay = paceResult

\* C22: for a known distance d and time t, the pace shown (rounded to the
\* whole second), typed into the pace field, derives with d a time that
\* differs from t by at most 0.5 x d / 1000 + 0.5 seconds; 10000 m in 2700 s
\* show '4:30 min/km', and 4:30 with 10000 m gives 45:00.
C22_RoundTrip ==
    (hasDistance /\ hasTime /\ paceResult # NullV /\ home.pace \in ShownPace)
    => /\ timeResult # NullV
       /\ QLeq(QAbs(QSub(ShownSeconds(timeResult), timeSeconds)),
               QAdd(QDiv(distanceValue, QInt(2000)), Num(1, 2)))

\* An integer, as a number of the model.
IsWhole(x) == x.d = 1

\* C23: for a distance d > 0 and lap length L > 0, fullLaps is floor(d / L)
\* and remainderMeters is round(d - fullLaps x L); for whole d and L,
\* fullLaps x L + remainderMeters = d.
C23_LapSummary ==
    hasDistance =>
       /\ lapData # NullV
       /\ LET d == distanceValue
              L == lapLengthSafe
              f == lapData.fullLaps
              r == lapData.remainderMeters
              rest == QSub(d, QMul(QInt(f), L))
          IN  /\ QLess(QInt(0), L)
              /\ QLeq(QMul(QInt(f), L), d)
              /\ QLess(d, QMul(QInt(f + 1), L))
              /\ QLeq(QSub(QInt(r), Num(1, 2)), rest)
              /\ QLess(rest, QAdd(QInt(r), Num(1, 2)))
              /\ (IsWhole(d) /\ IsWhole(L)) => f * L.n + r = d.n

\* 1000 m in laps of 400 m: 2 full laps, 200 m left, half a lap done.
C23_Witness ==
    /\ home.distance = <<"1", "0", "0", "0">>
    /\ lapLengthSafe = QInt(400)
    /\ lapData.fullLaps = 2
    /\ lapData.remainderMeters = 200
    /\ lapData.progress = Num(1, 2)

\* C24: the progress drawn on the track is the fractional part of d / L,
\* except that it is 1 when d is a whole non-zero number of laps; for every
\* distance d > 0 it lies in (0, 1].
C24_Progress ==
    hasDistance =>
       LET q == QDiv(distanceValue, lapLengthSafe)
       IN  /\ IF IsWhole(q) THEN progress = QInt(1)
              ELSE progress = QSub(q, QInt(QFloor(q)))
           /\ QLess(QInt(0), progress)
           /\ QLeq(progress, QInt(1))

\* 800 m in laps of 400 m: the track shows a complete lap.
C24_Witness ==
    /\ home.distance = <<"8", "0", "0">>
    /\ lapLengthSafe = QInt(400)
    /\ lapData.progress = QInt(0)
    /\ progress = QInt(1)

\* C25: for d > L the split list has floor(d / L) lap entries in increasing
\* order, entry k labelled k x L, followed by one more entry, final and
\* labelled d, exactly when d is not a whole number of laps; no other entry
\* is final.
C25_SplitEntries ==
    (hasDistance /\ QLess(lapLengthSafe, distanceValue)) =>
       LET d == distanceValue
           L == lapLengthSafe
           q == QDiv(d, L)
           f == QFloor(q)
           splits == lapSplits
       IN  /\ Len(splits) = f + (IF IsWhole(q) THEN 0 ELSE 1)
           /\ \A k \in 1..f :
                 /\ splits[k].lap = k
                 /\ splits[k].cumulativeMeters = QMul(QInt(k), L)
                 /\ ~splits[k].isFinal
           /\ ~IsWhole(q) =>
                 /\ splits[f + 1].isFinal
                 /\ splits[f + 1].cumulativeMeters = d
                 /\ splits[f + 1].lap = f + 1

\* 1000 m in laps of 400 m: 400 m, 800 m and 1000 m, the last one final.
C25_Witness ==
    /\ home.distance = <<"1", "0", "0", "0">>
    /\ lapLengthSafe = QInt(400)
    /\ Len(lapSplits) = 3
    /\ lapSplits[1].cumulativeMeters = QInt(400)
    /\ lapSplits[2].cumulativeMeters = QInt(800)
    /\ lapSplits[3].cumulativeMeters = QInt(1000)
    /\ lapSplits[3].isFinal

\* C26: when d <= L, one complete lap included, the split list is empty
\* whatever the time and the pace are.
C26_NoSplitsWithinOneLap ==
    (hasDistance /\ QLeq(distanceValue, lapLengthSafe)) => lapSplits = <<>>

\* One complete lap of 400 m with time and pace known: no splits.
C26_Witness ==
    /\ home.distance = <<"4", "0", "0">>
    /\ lapLengthSafe = QInt(400)
    /\ hasTime /\ hasPace
    /\ lapSplits = <<>>

\* C27: when the pace p is known every split time, the final one included,
\* is p x cumulativeMeters / 1000, whatever the total time; when only the
\* total time T is known the split of lap k is T x (k x L) / d and the final
\* split is T; when neither is known every split time is absent.  (A split
\* shows its time rounded to the whole second.)
C27_SplitTimes ==
    LET splits == lapSplits IN
    \A k \in 1..Len(splits) :
       LET e == splits[k]
           m == e.cumulativeMeters
       IN  /\ hasPace =>
                 /\ e.time # NullV
                 /\ ShownSeconds(e.time)
                       = QInt(QRound(QDiv(QMul(paceSeconds, m), QInt(1000))))
           /\ (~hasPace /\ hasTime) =>
                 /\ e.time # NullV
                 /\ ShownSeconds(e.time)
                       = QInt(QRound(IF e.isFinal THEN timeSeconds
                                     ELSE QDiv(QMul(timeSeconds, m),
                                               distanceValue)))
           /\ (~hasPace /\ ~hasTime) => e.time = NullV

\* A text of the lap-length field that is no positive number.
InvalidLapLength(t) ==
    ~(IsNum(Number(t)) /\ QLess(QInt(0), Number(t)))

\* C28: entering a zero, negative or non-numeric lap length makes the
\* effective lap length the default of 400 m, whatever was configured
\* before.
C28_FallsBackToDefault ==
    [][\A t \in LapLengthTexts :
          (handleLapLengthInput(t) /\ InvalidLapLength(t))
          => lapLengthSafe' = QInt(DEFAULT_LAP_METERS)]_vars

\* C28, amended: entering a zero, negative or non-numeric lap length leaves
\* the effective lap length at the last valid value (400 m when none was
\* entered since the start or the last reset); the effective lap length is
\* always lapLength itself.
C28_KeepsLastValid ==
    /\ [](lapLengthSafe = home.lapLength)
    /\ [][\A t \in LapLengthTexts :
             (handleLapLengthInput(t) /\ InvalidLapLength(t))
             => lapLengthSafe' = lapLengthSafe]_vars

\* '0' has been entered after 200: the effective lap length is still 200 m.
C28_Witness ==
    /\ home.lapLengthInput = <<"0">>
    /\ lapLengthSafe = QInt(200)

\* C30: highlight and calculated flag agree: a field that is highlighted as
\* the single missing one shows a derived value and is flagged calculated,
\* and a field that is flagged calculated is the highlighted one.
C30_HighlightIsCalculated ==
    /\ highlightedField = "distance" =>
          distanceIsCalculated /\ distanceDisplay = distanceResult
    /\ highlightedField = "time" =>
          timeIsCalculated /\ timeDisplay = timeResult
    /\ highlightedField = "pace" =>
          paceIsCalculated /\ paceDisplay = paceResult
    /\ distanceIsCalculated => highlightedField = "distance"
    /\ timeIsCalculated => highlightedField = "time"
    /\ paceIsCalculated => highlightedField = "pace"

\* ============================================ more claims about the timers

Without(s, i) == SubSeq(s, 1, i - 1) \o SubSeq(s, i + 1, Len(s))

\* C31: after any sequence of add and remove, from one group with id 1, the
\* ids of the groups are pairwise distinct: add appends a group whose id is
\* the greatest id plus one, or 1 when there is no group, and remove(id)
\* takes out the group with that id and no other.
C31_DistinctIds ==
    /\ [](\A i \in 1..Len(groups) : \A j \in 1..Len(groups) :
             groups[i] = groups[j] => i = j)
    /\ [][/\ AddGroup =>
                \E id \in Ids :
                   /\ groups' = Append(groups, id)
                   /\ \A h \in Range(groups) : h < id
                   /\ groups = <<>> => id = 1
                   /\ groups # <<>> => id - 1 \in Range(groups)
          /\ \A g \in Ids :
                RemoveGroup(g) =>
                   \E i \in 1..Len(groups) :
                      groups[i] = g /\ groups' = Without(groups, i)]_vars

\* Group 2 was added and group 1 removed: the next id is 3.
C31_Witness ==
    /\ groups = <<2>>
    /\ newId = 3

\* =============================================== more claims about Home

\* C32: after any sequence of lap-length edits and resets the effective lap
\* length is a positive number: an edit is applied only when its text is a
\* number > 0 and keeps the previous value otherwise, so that the lap count
\* and the splits never divide by zero; the reset sets it to 400.
C32_LapLengthPositive ==
    /\ [](/\ IsNum(home.lapLength) /\ QLess(QInt(0), home.lapLength)
          /\ IsNum(lapLengthSafe) /\ QLess(QInt(0), lapLengthSafe)
          /\ hasDistance => IsNum(lapData.lapCount))
    /\ [][/\ \A t \in LapLengthTexts :
                handleLapLengthInput(t) =>
                   /\ home'.lapLengthInput = t
                   /\ home'.lapLength =
                         IF InvalidLapLength(t) THEN home.lapLength
                         ELSE Number(t)
          /\ handleResetLapLength =>
                lapLengthSafe' = QInt(400)]_vars

\* 200 has been entered and then '-5': the laps of 1000 m are still counted
\* in laps of 200 m.
C32_Witness ==
    /\ home.lapLengthInput = <<"-", "5">>
    /\ home.lapLength = QInt(200)
    /\ home.distance = <<"1", "0", "0", "0">>
    /\ lapData.lapCount = QInt(5)

\* C33: for every distance d > 0 and lap length L > 0, fractional distances
\* included, 0 <= remainderMeters < L, and for d > L remainderMeters is 0
\* exactly when the split list has no final partial-lap entry.
C33_RemainderWithinLap ==
    hasDistance =>
       LET r == lapData.remainderMeters
           splits == lapSplits
       IN  /\ 0 <= r
           /\ QLess(QInt(r), lapLengthSafe)
           /\ QLess(lapLengthSafe, distanceValue) =>
                 (r = 0 <=> ~\E k \in 1..Len(splits) : splits[k].isFinal)

====
